---------------------------- MODULE Spec2Model ----------------------------
(* Model of Spotify_Recommender.py: process_spotify_csv reads a CSV of     *)
(* track metadata with pandas, fills missing text values, derives a "text" *)
(* column, projects/renames the columns, wraps every row in a Vespa        *)
(* {put, fields} envelope and writes the result as JSON lines.             *)
(*                                                                         *)
(* Text is modelled as a sequence of one-character strings, so that        *)
(* parsing (read_csv's type inference) and formatting (the f-strings) are  *)
(* computed and not assumed to be the identity.                            *)
EXTENDS Integers, Sequences, FiniteSets, TLC

VARIABLES
    csv,      \* the input file: its header columns and its data rows (raw text)
    prior,    \* content of the output path before the first invocation
    outfile,  \* content of the output path now
    pc,       \* position inside process_spotify_csv
    tracks,   \* the local DataFrame `tracks`
    err,      \* the exception that ended the invocation, if any
    runs,     \* how many times the script has been invoked
    prevOut   \* output path content when the previous invocation ended

vars == <<csv, prior, outfile, pc, tracks, err, runs, prevOut>>

(* ------------------------------ bounds -------------------------------- *)
MaxRows == 2
MaxRuns == 2

(* ------------------------------ text ---------------------------------- *)
DigitChars == <<"0", "1", "2", "3", "4", "5", "6", "7", "8", "9">>

IsDigit(c) == \E d \in 1..10 : DigitChars[d] = c

DigitVal(c) == (CHOOSE d \in 1..10 : DigitChars[d] = c) - 1

IsDigits(s) == Len(s) > 0 /\ \A i \in 1..Len(s) : IsDigit(s[i])

RECURSIVE ParseInt(_)
ParseInt(s) ==
    IF s = <<>> THEN 0
    ELSE ParseInt(SubSeq(s, 1, Len(s) - 1)) * 10 + DigitVal(s[Len(s)])

RECURSIVE FormatInt(_)
FormatInt(n) ==
    IF n < 10 THEN <<DigitChars[n + 1]>>
    ELSE FormatInt(n \div 10) \o <<DigitChars[(n % 10) + 1]>>

(* ------------------------------ values -------------------------------- *)
(* A cell of a DataFrame: a Python str, an int64, a float64 holding an     *)
(* integral value, or NaN.                                                 *)
StrV(s)   == [t |-> "str",   s |-> s,    n |-> 0]
IntV(n)   == [t |-> "int",   s |-> <<>>, n |-> n]
FloatV(n) == [t |-> "float", s |-> <<>>, n |-> n]
NaN       == [t |-> "nan",   s |-> <<>>, n |-> 0]
JsonNull  == [t |-> "null",  s |-> <<>>, n |-> 0]

(* The strings pandas.read_csv reads as a missing value (its default       *)
(* na_values), besides the empty field.                                    *)
NaMarkers ==
    { <<"N","A">>, <<"N","a","N">>, <<"n","a","n">>, <<"N","U","L","L">>,
      <<"n","u","l","l">>, <<"N","o","n","e">>, <<"N","/","A">>,
      <<"n","/","a">>, <<"#","N","/","A">>, <<"#","N","A">>,
      <<"<","N","A",">">>, <<"-","N","a","N">>, <<"-","n","a","n">>,
      <<"#","N","/","A"," ","N","/","A">>, <<"-","1",".","#","I","N","D">>,
      <<"1",".","#","I","N","D">>, <<"-","1",".","#","Q","N","A","N">>,
      <<"1",".","#","Q","N","A","N">> }

IsNA(s) == s = <<>> \/ s \in NaMarkers

(* ------------------------------ pandas -------------------------------- *)
(* A DataFrame is [cols: the column labels, n: the number of rows,         *)
(* data: column label -> sequence of n cells].                             *)

Required == {"track_id", "artists", "album_name", "track_name", "track_genre"}

(* read_csv's inference for one column of raw fields: missing fields are   *)
(* NaN; when every other field is an integer literal the column is int64,  *)
(* or float64 if a NaN must be held; otherwise the fields stay str.        *)
(* (Literals beyond int64, signs, decimals and booleans are outside the    *)
(* inputs enumerated here.)                                                *)
InferColumn(raw) ==
    LET idx    == 1..Len(raw)
        nonNA  == {i \in idx : ~IsNA(raw[i])}
        allInt == nonNA # {} /\ \A i \in nonNA : IsDigits(raw[i])
    IN  [i \in idx |->
            IF IsNA(raw[i]) THEN NaN
            ELSE IF allInt
                 THEN IF nonNA = idx THEN IntV(ParseInt(raw[i]))
                                     ELSE FloatV(ParseInt(raw[i]))
                 ELSE StrV(raw[i])]

\* line 34: tracks = pd.read_csv(input_file)
ReadCsv(file) ==
    [cols |-> file.cols,
     n    |-> Len(file.rows),
     data |-> [c \in file.cols |->
                  InferColumn([i \in 1..Len(file.rows) |-> file.rows[i][c]])]]

\* Series.fillna(''): NaN becomes the empty str, every other cell is kept.
FillNa(col) == [i \in 1..Len(col) |-> IF col[i].t = "nan" THEN StrV(<<>>) ELSE col[i]]

\* line 37: the columns whose missing values are filled, in loop order.
NormalizeColumns_noGenre == <<"artists", "album_name", "track_name">>

NormalizeColumns == <<"artists", "album_name", "track_name", "track_genre">>

\* The first label of `keys` that is no column of df (tracks[f] raises
\* KeyError for it), or "" when all are columns.
RECURSIVE MissingKey(_, _)
MissingKey(df, keys) ==
    IF keys = <<>> THEN ""
    ELSE IF Head(keys) \notin df.cols THEN Head(keys)
    ELSE MissingKey(df, Tail(keys))

\* A mutant: rows with a missing value are dropped (dropna) instead of filled.
DropNaFrame(df, keys) ==
    LET range == {keys[k] : k \in 1..Len(keys)}
        keep  == {i \in 1..df.n : \A c \in range : df.data[c][i].t # "nan"}
        order == CHOOSE f \in [1..Cardinality(keep) -> keep] :
                    \A a, b \in 1..Cardinality(keep) : a < b => f[a] < f[b]
    IN [cols |-> df.cols, n |-> Cardinality(keep),
        data |-> [c \in df.cols |-> [k \in 1..Cardinality(keep) |-> df.data[c][order[k]]]]]

\* lines 37-38: for f in [...]: tracks[f] = tracks[f].fillna('')
FillNaFrame(df, keys) ==
    LET range == {keys[k] : k \in 1..Len(keys)}
    IN [df EXCEPT !.data = [c \in df.cols |->
                               IF c \in range THEN FillNa(df.data[c]) ELSE df.data[c]]]

\* The dtype pandas gives a column holding these cells.
ColDtype(col) ==
    IF Len(col) = 0 THEN "object"
    ELSE IF \A i \in 1..Len(col) : col[i].t = "int" THEN "int64"
    ELSE IF \A i \in 1..Len(col) : col[i].t \in {"int", "float", "nan"} THEN "float64"
    ELSE "object"

\* DataFrame.apply(func, axis=1) hands func row i of DataFrame.values: the
\* columns interleaved to one dtype, so in an all-numeric frame holding a
\* float64 column the int64 cells arrive as floats.
RowValues(df, i) ==
    LET dts     == {ColDtype(df.data[c]) : c \in df.cols}
        asFloat == dts = {"int64", "float64"}
    IN [c \in df.cols |->
           IF asFloat /\ df.data[c][i].t = "int" THEN FloatV(df.data[c][i].n)
           ELSE df.data[c][i]]

\* f"{x}" of a cell: str(x).
Format(v) ==
    CASE v.t = "str"   -> v.s
      [] v.t = "int"   -> FormatInt(v.n)
      [] v.t = "float" -> FormatInt(v.n) \o <<".", "0">>
      [] v.t = "nan"   -> <<"n", "a", "n">>

Space == <<" ">>

\* lines 4-6
combine_features(row) ==
    Format(row["artists"]) \o Space \o Format(row["album_name"]) \o Space
        \o Format(row["track_name"]) \o Space \o Format(row["track_genre"])

\* line 41: tracks["text"] = tracks.apply(combine_features, axis=1)
\* (on an empty frame apply returns an empty Series)
WithText(df) ==
    [cols |-> df.cols \cup {"text"},
     n    |-> df.n,
     data |-> [c \in df.cols \cup {"text"} |->
                  IF c = "text"
                  THEN [i \in 1..df.n |-> StrV(combine_features(RowValues(df, i)))]
                  ELSE df.data[c]]]

\* line 45: rename(columns={'track_name': 'title', 'track_id': 'doc_id'})
Renamed(c) == CASE c = "doc_id" -> "track_id" [] c = "title" -> "track_name" [] OTHER -> c

\* lines 44-45: tracks = tracks[['track_id', 'track_name', 'text']], renamed
Projected(df) ==
    [cols |-> {"doc_id", "title", "text"},
     n    |-> df.n,
     data |-> [c \in {"doc_id", "title", "text"} |-> df.data[Renamed(c)]]]

\* line 48: tracks['fields'] = tracks.apply(lambda row: row.to_dict(), axis=1)
WithFields(df) ==
    [cols |-> df.cols \cup {"fields"},
     n    |-> df.n,
     data |-> [c \in df.cols \cup {"fields"} |->
                  IF c = "fields"
                  THEN [i \in 1..df.n |-> [t |-> "dict", d |-> RowValues(df, i)]]
                  ELSE df.data[c]]]

Prefix ==
    <<"i","d",":","h","y","b","r","i","d","-","s","e","a","r","c","h",":",
      "d","o","c",":",":">>

\* line 51: tracks['put'] = tracks['doc_id'].apply(lambda x: f"id:hybrid-search:doc::{x}")
WithPut(df) ==
    [cols |-> df.cols \cup {"put"},
     n    |-> df.n,
     data |-> [c \in df.cols \cup {"put"} |->
                  IF c = "put"
                  THEN [i \in 1..df.n |-> StrV(Prefix \o Format(df.data["doc_id"][i]))]
                  ELSE df.data[c]]]

\* line 54: df_result = tracks[['put', 'fields']]
DfResult(df) ==
    [cols |-> {"put", "fields"},
     n    |-> df.n,
     data |-> [c \in {"put", "fields"} |-> df.data[c]]]

\* A cell as to_json writes it: a dict as a JSON object of its items, NaN
\* as null, str as a string, int and float as numbers.
JsonOf(v) ==
    IF v.t = "dict"
    THEN [k \in DOMAIN v.d |-> IF v.d[k].t = "nan" THEN JsonNull ELSE v.d[k]]
    ELSE IF v.t = "nan" THEN JsonNull ELSE v

(* The text of a file is held as [lines: the JSON objects of its lines   *)
(* that hold one, in order; blanks: the number of its lines that hold      *)
(* nothing but the line terminator]. An empty (0-byte) file has no lines   *)
(* and no blanks.                                                          *)

\* line 56: to_json(orient='records', lines=True): one JSON object per row,
\* keyed by the frame's columns, in row order, each followed by "\n". The
\* terminating "\n" is written with zero records too: the text is then one
\* blank line.
ToJsonLines(df) ==
    [lines  |-> [i \in 1..df.n |-> [c \in df.cols |-> JsonOf(df.data[c][i])]],
     blanks |-> IF df.n = 0 THEN 1 ELSE 0]

\* A mutant of the write: the file opened for appending.
WriteFile_append(old, text) ==
    [exists |-> TRUE, lines |-> old.lines \o text.lines,
     blanks |-> old.blanks + text.blanks]

\* line 56: to_json opens output_file for writing, truncating what it held.
WriteFile(old, text) ==
    [exists |-> TRUE, lines |-> text.lines, blanks |-> text.blanks]

(* ------------------------------ inputs -------------------------------- *)
\* The raw text a field of each column may hold: missing, plain text, and
\* integer literals (with and without a leading zero).
ColumnValues(c) ==
    CASE c = "track_id"    -> {<<>>, <<"k">>, <<"1">>}
      [] c = "artists"     -> {<<"X">>, <<"0", "7">>}
      [] c = "album_name"  -> {<<>>, <<"Y">>}
      [] c = "track_name"  -> {<<>>, <<"Z">>}
      [] c = "track_genre" -> {<<"G">>}

\* The header holds every required column, or lacks one of them.
Headers == {Required} \cup {Required \ {c} : c \in Required}

RowsOf(cols) ==
    {r \in [cols -> UNION {ColumnValues(c) : c \in Required}] :
        \A c \in cols : r[c] \in ColumnValues(c)}

Inputs ==
    UNION {{[cols |-> h, rows |-> rs] :
               rs \in UNION {[1..n -> RowsOf(h)] : n \in 0..MaxRows}} : h \in Headers}

\* The inputs of the control-flow checks: which statement runs next depends
\* on the header and on the number of rows, not on the text of the fields,
\* so only track_id and track_name vary here.
FlowInputs ==
    {f \in Inputs :
        \A i \in 1..Len(f.rows) :
            \A c \in f.cols \ {"track_id", "track_name"} :
                ~IsNA(f.rows[i][c]) /\ ~IsDigits(f.rows[i][c])}

\* A line left in the output file by some earlier program.
StaleLine ==
    [put    |-> StrV(Prefix \o <<"o">>),
     fields |-> [doc_id |-> StrV(<<"o">>), title |-> StrV(<<"o">>), text |-> StrV(<<"o">>)]]

PriorContents ==
    {[exists |-> FALSE, lines |-> <<>>, blanks |-> 0],
     [exists |-> TRUE, lines |-> <<StaleLine>>, blanks |-> 0]}

(* --------------------------- the program ------------------------------ *)
NoFrame == [cols |-> {}, n |-> 0, data |-> <<>>]

NoErr == [kind |-> "none", step |-> "", key |-> ""]

\* A mutant: the function returns after building 'put', without writing.
NextPc_noWrite(p) ==
    CASE p = "load"      -> "normalize"
      [] p = "normalize" -> "derive"
      [] p = "derive"    -> "project"
      [] p = "project"   -> "fields"
      [] p = "fields"    -> "put"
      [] p = "put"       -> "done"
      [] p = "write"     -> "done"

\* lines 34-56: the statements of process_spotify_csv, in order.
NextPc(p) ==
    CASE p = "load"      -> "normalize"
      [] p = "normalize" -> "derive"
      [] p = "derive"    -> "project"
      [] p = "project"   -> "fields"
      [] p = "fields"    -> "put"
      [] p = "put"       -> "write"
      [] p = "write"     -> "done"

Start(inputs) ==
    /\ csv \in inputs
    /\ prior \in PriorContents
    /\ outfile = prior
    /\ pc = "load"
    /\ tracks = NoFrame
    /\ err = NoErr
    /\ runs = 1
    /\ prevOut = prior

Init == Start(Inputs)

InitFlow == Start(FlowInputs)

\* An uncaught exception: the local frame is dropped, the process exits.
Raise(kind, key) ==
    /\ pc' = "failed"
    /\ err' = [kind |-> kind, step |-> pc, key |-> key]
    /\ tracks' = NoFrame
    /\ UNCHANGED <<csv, prior, outfile, runs, prevOut>>

Continue(df) ==
    /\ pc' = NextPc(pc)
    /\ tracks' = df
    /\ UNCHANGED <<csv, prior, outfile, err, runs, prevOut>>

\* line 34
Load ==
    /\ pc = "load"
    /\ Continue(ReadCsv(csv))

\* lines 37-38
Normalize ==
    /\ pc = "normalize"
    /\ IF MissingKey(tracks, NormalizeColumns) # ""
       THEN Raise("KeyError", MissingKey(tracks, NormalizeColumns))
       ELSE Continue(FillNaFrame(tracks, NormalizeColumns))

\* line 6: the columns combine_features reads, in order.
CombineColumns == <<"artists", "album_name", "track_name", "track_genre">>

\* line 41
Derive ==
    /\ pc = "derive"
    /\ IF MissingKey(tracks, CombineColumns) # ""
       THEN Raise(IF tracks.n = 0 THEN "ValueError" ELSE "KeyError",
                  MissingKey(tracks, CombineColumns))
       ELSE Continue(WithText(tracks))

\* line 44: the columns selected.
ProjectColumns == <<"track_id", "track_name", "text">>

\* lines 44-45
Project ==
    /\ pc = "project"
    /\ IF MissingKey(tracks, ProjectColumns) # ""
       THEN Raise("KeyError", MissingKey(tracks, ProjectColumns))
       ELSE Continue(Projected(tracks))

\* line 48
Fields ==
    /\ pc = "fields"
    /\ Continue(WithFields(tracks))

\* line 51
Put ==
    /\ pc = "put"
    /\ Continue(WithPut(tracks))

\* lines 54-56
Write ==
    /\ pc = "write"
    /\ outfile' = WriteFile(outfile, ToJsonLines(DfResult(tracks)))
    /\ pc' = NextPc(pc)
    /\ tracks' = NoFrame
    /\ UNCHANGED <<csv, prior, err, runs, prevOut>>

\* line 60: the script is run again on the same files.
Rerun ==
    /\ pc \in {"done", "failed"}
    /\ runs < MaxRuns
    /\ pc' = "load"
    /\ runs' = runs + 1
    /\ err' = NoErr
    /\ prevOut' = outfile
    /\ UNCHANGED <<csv, prior, outfile, tracks>>

Step == Load \/ Normalize \/ Derive \/ Project \/ Fields \/ Put \/ Write

Next == Load \/ Normalize \/ Derive \/ Project \/ Fields \/ Put \/ Write \/ Rerun

Spec == Init /\ [][Next]_vars

\* The function is synchronous and single-threaded: a started invocation
\* runs each statement until it returns or raises.
FairSpec == InitFlow /\ [][Next]_vars /\ WF_vars(Step)

(* ------------------------------ claims -------------------------------- *)
\* The envelopes the output file holds, in order.
Lines == outfile.lines

RowIdx == 1..Len(csv.rows)

HasAll == csv.cols = Required

\* The specification's normalize on raw text: a missing value is the empty
\* string, any other value is itself.
Normalized(s) == IF s = <<>> THEN <<>> ELSE s

\* C1: when a run has finished, the output holds exactly one envelope per
\* input row and envelope i is the one of input row i (its title is row i's
\* track name, which is plain text or missing in the inputs): rows with
\* missing values or a shared track_id are neither dropped nor merged.
C1_OneEnvelopePerRowInOrder ==
    pc = "done" =>
        /\ Len(Lines) = Len(csv.rows)
        /\ \A i \in RowIdx : Lines[i]["fields"]["title"] = StrV(csv.rows[i]["track_name"])

C1_Witness ==
    /\ pc = "done"
    /\ Len(csv.rows) = 2
    /\ csv.rows[1]["track_id"] = csv.rows[2]["track_id"]
    /\ csv.rows[1]["album_name"] = <<>>
    /\ csv.rows[1]["track_name"] # csv.rows[2]["track_name"]
    /\ Len(Lines) = 2

\* C2 (as claimed): every envelope's put is the prefix followed by its
\* row's track_id, and two rows have equal put exactly when they have equal
\* track_id.
C2_PutIsPrefixPlusTrackId ==
    pc = "done" =>
        /\ \A i \in RowIdx : Lines[i]["put"] = StrV(Prefix \o csv.rows[i]["track_id"])
        /\ \A i, j \in RowIdx :
              (Lines[i]["put"] = Lines[j]["put"])
                  <=> (csv.rows[i]["track_id"] = csv.rows[j]["track_id"])

\* C3 (as claimed): every envelope's text is normalize(artists), a space,
\* normalize(album_name), a space, normalize(track_name), a space,
\* normalize(track_genre), each value otherwise unchanged.
C3_TextIsJoinOfNormalized ==
    pc = "done" =>
        \A i \in RowIdx :
            Lines[i]["fields"]["text"] =
                StrV(Normalized(csv.rows[i]["artists"]) \o Space
                     \o Normalized(csv.rows[i]["album_name"]) \o Space
                     \o Normalized(csv.rows[i]["track_name"]) \o Space
                     \o Normalized(csv.rows[i]["track_genre"]))

\* C4 (as claimed): every envelope has exactly the keys put and fields, its
\* fields exactly the keys doc_id, title and text, doc_id is the row's
\* track_id and title the row's track_name (empty when missing).
C4_EnvelopeShape ==
    pc = "done" =>
        \A i \in RowIdx :
            /\ DOMAIN Lines[i] = {"put", "fields"}
            /\ DOMAIN Lines[i]["fields"] = {"doc_id", "title", "text"}
            /\ Lines[i]["fields"]["doc_id"] = StrV(csv.rows[i]["track_id"])
            /\ Lines[i]["fields"]["title"] = StrV(Normalized(csv.rows[i]["track_name"]))

\* C5 (as claimed): a row with an empty track_id yields an envelope whose
\* put is the bare prefix and whose doc_id is the empty string.
C5_EmptyTrackIdGivesBarePrefix ==
    pc = "done" =>
        \A i \in RowIdx :
            csv.rows[i]["track_id"] = <<>> =>
                /\ Lines[i]["put"] = StrV(Prefix)
                /\ Lines[i]["fields"]["doc_id"] = StrV(<<>>)

\* C6 (as claimed): no value is coerced: for every row that has a
\* track_id, the doc_id, title and text of its envelope are text values
\* and doc_id is the track_id as written, so a track_id of 1 yields the
\* string "1", never the number 1.
C6_AllFieldsAreText ==
    pc = "done" =>
        \A i \in RowIdx :
            csv.rows[i]["track_id"] # <<>> =>
                /\ \A k \in {"doc_id", "title", "text"} : Lines[i]["fields"][k].t = "str"
                /\ Lines[i]["fields"]["doc_id"].s = csv.rows[i]["track_id"]

\* C7 (as claimed): with every required column and zero data rows no step
\* fails, and a finished run has written the output file with zero lines:
\* the file exists and is empty.
C7_EmptyInputGivesEmptyFile ==
    (HasAll /\ csv.rows = <<>>) =>
        /\ pc # "failed"
        /\ pc = "done" =>
              /\ outfile.exists
              /\ Len(outfile.lines) + outfile.blanks = 0

\* C8 (as claimed): with a required column missing the run fails with
\* InputFormatError raised by the load step, and the output file is left
\* as it was.
C8_InputFormatErrorAtLoad ==
    ~HasAll =>
        /\ pc # "done"
        /\ outfile = prior
        /\ pc = "failed" => (err.kind = "InputFormatError" /\ err.step = "load")

\* C8 (amended): with a required column missing the load step succeeds and
\* the run fails with a KeyError naming the missing column, raised by the
\* normalize step, or by the project step when track_id is the one
\* missing; the run never reaches the later steps and the output file
\* keeps the content it had.
C8_KeyErrorBeforeWrite ==
    ~HasAll =>
        /\ pc \in {"load", "normalize", "derive", "project", "failed"}
        /\ outfile = prior
        /\ pc = "failed" =>
              /\ err.kind = "KeyError"
              /\ err.key \in Required \ csv.cols
              /\ err.step = IF err.key = "track_id" THEN "project" ELSE "normalize"

C8_Witness ==
    /\ ~HasAll
    /\ pc = "failed"
    /\ err.step = "normalize"
    /\ err.key = "track_genre"
    /\ Len(csv.rows) > 0
    /\ prior.exists
    /\ outfile = prior

\* C9: a second run on the same input and output path leaves the file
\* exactly as the first run left it, and no finished run keeps a line the
\* file held before: the file is overwritten, not appended to.
C9_RerunGivesSameOutput ==
    pc = "done" =>
        /\ runs >= 2 => outfile = prevOut
        /\ \A i \in 1..Len(Lines) : Lines[i] # StaleLine

C9_Witness ==
    /\ pc = "done"
    /\ runs >= 2
    /\ prior.lines # <<>>
    /\ Len(csv.rows) >= 1
    /\ outfile = prevOut

PipelineOrder ==
    { <<"load", "normalize">>, <<"normalize", "derive">>, <<"derive", "project">>,
      <<"project", "fields">>, <<"fields", "put">>, <<"put", "write">>,
      <<"write", "done">> }

BeforeWrite == {"load", "normalize", "derive", "project", "fields", "put"}

\* C10: within an invocation the position only moves along load,
\* normalize, derive, project, fields, put, write, done (or to failed from
\* a step before write, or back to load for a new invocation); the output
\* file changes only in the write step, when every input row has been
\* loaded and transformed; a failure leaves the file untouched; every
\* invocation ends, and one whose input has all columns reaches write.
C10_LinearPipeline ==
    /\ [][pc' # pc =>
            \/ <<pc, pc'>> \in PipelineOrder
            \/ pc \in BeforeWrite /\ pc' = "failed"
            \/ pc \in {"done", "failed"} /\ pc' = "load"]_vars
    /\ [][outfile' # outfile =>
            /\ pc = "write" /\ pc' = "done"
            /\ tracks.n = Len(csv.rows)
            /\ {"put", "fields"} \subseteq tracks.cols]_vars
    /\ [][pc' = "failed" => outfile' = outfile]_vars
    /\ (pc = "load") ~> (pc \in {"done", "failed"})
    /\ (pc = "load" /\ HasAll) ~> (pc = "write")

C10_Witness ==
    /\ pc = "done"
    /\ runs >= 2
    /\ Len(csv.rows) >= 2
    /\ outfile # prior

====
